---- MODULE Spec2Model ----
\* Model of crawly's BrowserManager (both variants found in the repository:
\* the retrying one and the stealth/recaptcha one) and of RequestManager.
EXTENDS Integers, Sequences, FiniteSets, TLC

\* ---------------------------------------------------------------- bounds
\* Number of asynchronous API calls (launchBrowser, createPage, closeBrowser)
\* issued on one BrowserManager.
MaxCalls == 4

\* ------------------------------------------------------ program constants
\* initPuppeteer(launchOptions, retryCount = 3)
retryCount == 3

\* private browser: Browser | null = null
NoBrowser == 0

VARIABLES
    variant,        \* which BrowserManager source: "retrying" or "stealth"
    manageErrors,   \* this.manageErrors
    browser,        \* this.browser (NoBrowser or a browser id)
    pages,          \* this.pages
    running,        \* browser processes started and not yet closed or killed
    nextBrowser,    \* browsers started so far (source of fresh handles)
    nextPage,       \* pages created so far (source of fresh handles)
    lpc,            \* position of the launchBrowser call in flight
    attempt,        \* initPuppeteer's local `attempt`
    cpc,            \* position of the createPage call in flight
    cbrowser,       \* this.browser as read by the last createPage call
    xpc,            \* position of the closeBrowser call in flight
    xbrowser,       \* this.browser as read by the last closeBrowser call
    calls,          \* number of asynchronous calls issued so far
    last,           \* outcome of the call that completed last
    held0,          \* this.browser when the current/last launchBrowser began
    pages0,         \* this.pages when the current/last call began
    log,            \* external steps of the current/last launchBrowser call
    newPageCalls,   \* browser.newPage() invocations made by the last createPage
    closeCalls,     \* browser.close() invocations so far
    created,        \* pages returned by createPage since construction/last close
    ctorArg,        \* the argument the constructor was called with, or "none"
    given,          \* options argument of the current/last launchBrowser call
    passed,         \* options of the most recent puppeteer.launch invocation
    lastKill,       \* how the current launchBrowser's last killChromeProcesses ended
    failure,        \* what the current launchBrowser's last failed start reported
    started,        \* per method: number of calls issued so far
    mgrPage,        \* RequestManager m is bound to page mgrPage[m]
    interception,   \* per page: setRequestInterception(true) was requested
    listeners,      \* per page: the 'request' listeners, in registration order
    attaching,      \* the listener whose registration awaits setRequestInterception
    requests,       \* per RequestManager: this.requests
    events,         \* every request event so far, with what the listeners did
    attachAt,       \* per manager: events seen when its first capture listener was added
    clearAt,        \* per manager: events seen at its last clearRequests
    rlast           \* the query that ran last: ok when it returned, with its value

bvars == <<variant, manageErrors, browser, pages, running, nextBrowser, nextPage,
           lpc, attempt, cpc, cbrowser, xpc, xbrowser, calls, last, held0,
           pages0, log, newPageCalls, closeCalls, created, ctorArg, given,
           passed, lastKill, failure, started>>

rvars == <<mgrPage, interception, listeners, attaching, requests, events,
           attachAt, clearAt, rlast>>

vars == <<bvars, rvars>>

\* Outcome of a call: resolved (ok) with a handle, or rejected with an error
\* message and, where the code forwards it, the underlying failure.
NoRet ==
    [op |-> "none", arg |-> 0, ok |-> TRUE, val |-> 0, err |-> "none",
     cause |-> "none"]

Resolved(op, val) ==
    [op |-> op, arg |-> 0, ok |-> TRUE, val |-> val, err |-> "none",
     cause |-> "none"]

Rejected(op, err, cause) ==
    [op |-> op, arg |-> 0, ok |-> FALSE, val |-> 0, err |-> err,
     cause |-> cause]

\* Failures the underlying puppeteer.launch may report.
LaunchErrors == {"E1", "E2"}

\* ------------------------------------------------------------ pure reads
isBrowserLaunched == browser # NoBrowser

getAllPages == pages

Count(s, x) == Cardinality({i \in DOMAIN s : s[i] = x})

\* ------------------------------------------------------------------ Init
\* constructor(manageErrors = true): the default applies when the caller
\* passes no argument.
Constructed(arg) == IF arg = "none" THEN TRUE ELSE arg = "true"

\* Keys and values of launch options are opaque strings; an options object
\* is a function from the keys it has to their values.
NoOptions == [k \in {} |-> "none"]

\* Options callers pass to launchBrowser.
OptionChoices ==
    { NoOptions,
      [headless |-> "false", slowMo |-> "50"],
      [args |-> "--proxy-server=proxy:8080"] }

\* const defaultOptions = { headless: true, args: [...] }
defaultOptions ==
    [headless |-> "true", args |-> "--no-sandbox --disable-setuid-sandbox"]

\* Object spread { ...a, ...b }
Spread(a, b) ==
    [k \in DOMAIN a \cup DOMAIN b |-> IF k \in DOMAIN b THEN b[k] ELSE a[k]]

\* The argument of puppeteer.launch: the stealth variant spreads the
\* caller's options over defaultOptions, the retrying variant hands the
\* caller's options on as they are.
FinalOptions(options) ==
    IF variant = "stealth" THEN Spread(defaultOptions, options) ELSE options

NoKill == [outcome |-> "none", rejects |-> FALSE, value |-> FALSE]

\* Mutant of killChromeProcesses: a failing command is thrown on.
killChromeProcessesRethrows(outcome) ==
    [outcome |-> outcome, rejects |-> outcome = "error",
     value |-> outcome # "error"]

\* killChromeProcesses(): true when taskkill succeeded or its failure
\* message includes 'not found', false for any other failure; no path throws.
killChromeProcesses(outcome) ==
    [outcome |-> outcome, rejects |-> FALSE, value |-> outcome # "error"]

InitBrowser ==
    /\ variant \in {"retrying", "stealth"}
    /\ ctorArg \in {"none", "true", "false"}
    /\ manageErrors = Constructed(ctorArg)
    /\ given = NoOptions
    /\ passed = NoOptions
    /\ lastKill = NoKill
    /\ failure = "none"
    /\ started = [launchBrowser |-> 0, createPage |-> 0, closeBrowser |-> 0]
    /\ browser = NoBrowser
    /\ pages = <<>>
    /\ running = {}
    /\ nextBrowser = 0
    /\ nextPage = 0
    /\ lpc = "idle"
    /\ attempt = 0
    /\ cpc = "idle"
    /\ cbrowser = NoBrowser
    /\ xpc = "idle"
    /\ xbrowser = NoBrowser
    /\ calls = 0
    /\ last = NoRet
    /\ held0 = NoBrowser
    /\ pages0 = <<>>
    /\ log = <<>>
    /\ newPageCalls = 0
    /\ closeCalls = 0
    /\ created = <<>>

\* One page with one RequestManager bound to it, nothing registered.
InitRequests ==
    /\ mgrPage = <<1>>
    /\ interception = <<FALSE>>
    /\ listeners = << <<>> >>
    /\ attaching = <<>>
    /\ requests = << <<>> >>
    /\ events = <<>>
    /\ attachAt = <<-1>>
    /\ clearAt = <<-1>>
    /\ rlast = [op |-> "none", arg |-> <<>>, ok |-> TRUE, val |-> <<>>]

Init == InitBrowser /\ InitRequests

\* No asynchronous call is suspended at an await.
Idle == lpc = "idle" /\ cpc = "idle" /\ xpc = "idle"

\* --------------------------------------------------------- launchBrowser
\* The retry loop of initPuppeteer is entered only by the retrying variant
\* with manageErrors set; every other path is one puppeteer.launch.
Retries == variant = "retrying" /\ manageErrors

\* First step inside `while (attempt < retryCount) { try {`.
LoopEntry == IF manageErrors THEN "kill" ELSE "start"

\* Mutant of LaunchStart: the attempt counter is carried over from the
\* previous call instead of starting at 0.
LaunchStartKeepsAttempt ==
    /\ lpc = "idle"
    /\ calls < MaxCalls
    /\ calls' = calls + 1
    /\ started' = [started EXCEPT !.launchBrowser = @ + 1]
    /\ last' = NoRet
    /\ held0' = browser
    /\ pages0' = pages
    /\ attempt' = attempt
    /\ lpc' = IF Retries THEN LoopEntry ELSE "start"
    /\ log' = IF Retries /\ LoopEntry = "kill" THEN <<"kill">> ELSE <<"start">>
    /\ \E options \in OptionChoices :
         /\ given' = options
         /\ passed' = IF Retries /\ LoopEntry = "kill"
                        THEN passed ELSE FinalOptions(options)
    /\ lastKill' = NoKill
    /\ failure' = "none"
    /\ UNCHANGED <<variant, ctorArg, manageErrors, browser, pages, running, nextBrowser,
                   nextPage, cpc, cbrowser, xpc, xbrowser, newPageCalls,
                   closeCalls, created,
                   rvars>>

LaunchStart ==
    /\ lpc = "idle"
    /\ calls < MaxCalls
    /\ calls' = calls + 1
    /\ started' = [started EXCEPT !.launchBrowser = @ + 1]
    /\ last' = NoRet
    /\ held0' = browser
    /\ pages0' = pages
    /\ attempt' = 0
    /\ lpc' = IF Retries THEN LoopEntry ELSE "start"
    /\ log' = IF Retries /\ LoopEntry = "kill" THEN <<"kill">> ELSE <<"start">>
    /\ \E options \in OptionChoices :
         /\ given' = options
         /\ passed' = IF Retries /\ LoopEntry = "kill"
                        THEN passed ELSE FinalOptions(options)
    /\ lastKill' = NoKill
    /\ failure' = "none"
    /\ UNCHANGED <<variant, ctorArg, manageErrors, browser, pages, running, nextBrowser,
                   nextPage, cpc, cbrowser, xpc, xbrowser, newPageCalls,
                   closeCalls, created,
                   rvars>>

\* await this.killChromeProcesses(): taskkill either kills every chrome
\* process, finds none, or fails; the boolean result is discarded.  Were
\* the call to reject, the catch block of initPuppeteer would take over.
KillDone ==
    /\ lpc = "kill"
    /\ \E outcome \in {"killed", "notfound", "error"} :
          /\ running' = IF outcome = "killed" THEN {} ELSE running
          /\ lastKill' = killChromeProcesses(outcome)
    /\ IF lastKill'.rejects
         THEN /\ attempt' = attempt + 1
              /\ lpc' = "backoff"
         ELSE /\ attempt' = attempt
              /\ lpc' = "delay"
    /\ log' = Append(log, "wait")
    /\ UNCHANGED <<variant, ctorArg, manageErrors, browser, pages, nextBrowser, nextPage,
                   cpc, cbrowser, xpc, xbrowser, calls, last, held0,
                   pages0, newPageCalls, closeCalls, created,
                   given, passed, failure,
                   started,
                   rvars>>

\* await delay(this.delayTime) before the start attempt.
DelayDone ==
    /\ lpc = "delay"
    /\ lpc' = "start"
    /\ log' = Append(log, "start")
    /\ passed' = FinalOptions(given)
    /\ UNCHANGED <<variant, ctorArg, manageErrors, browser, pages, running, nextBrowser,
                   nextPage, attempt, cpc, cbrowser, xpc, xbrowser, calls, last,
                   held0, pages0, newPageCalls, closeCalls, created,
                   given, lastKill, failure,
                   started,
                   rvars>>

\* Mutant of StartOk: the started browser is not stored in this.browser.
StartOkDropsHandle ==
    /\ lpc = "start"
    /\ nextBrowser' = nextBrowser + 1
    /\ browser' = browser
    /\ running' = running \cup {nextBrowser + 1}
    /\ IF Retries
         THEN /\ lpc' = "ret"
              /\ last' = last
         ELSE /\ lpc' = "idle"
              /\ last' = Resolved("launchBrowser", nextBrowser + 1)
    /\ UNCHANGED <<variant, ctorArg, manageErrors, pages, nextPage, attempt, cpc,
                   cbrowser, xpc, xbrowser, calls, held0, pages0, log,
                   newPageCalls, closeCalls, created,
                   given, passed, lastKill, failure,
                   started,
                   rvars>>

\* this.browser = await puppeteer.launch(...) resolves.
StartOk ==
    /\ lpc = "start"
    /\ nextBrowser' = nextBrowser + 1
    /\ browser' = nextBrowser + 1
    /\ running' = running \cup {nextBrowser + 1}
    /\ IF Retries
         THEN /\ lpc' = "ret"
              /\ last' = last
         ELSE /\ lpc' = "idle"
              /\ last' = Resolved("launchBrowser", nextBrowser + 1)
    /\ UNCHANGED <<variant, ctorArg, manageErrors, pages, nextPage, attempt, cpc,
                   cbrowser, xpc, xbrowser, calls, held0, pages0, log,
                   newPageCalls, closeCalls, created,
                   given, passed, lastKill, failure,
                   started,
                   rvars>>

\* launchBrowser resumes after `await this.initPuppeteer(options)`:
\* return this.browser!
LaunchReturn ==
    /\ lpc = "ret"
    /\ lpc' = "idle"
    /\ last' = Resolved("launchBrowser", browser)
    /\ UNCHANGED <<variant, ctorArg, manageErrors, browser, pages, running, nextBrowser,
                   nextPage, attempt, cpc, cbrowser, xpc, xbrowser, calls, held0,
                   pages0, log, newPageCalls, closeCalls, created,
                   given, passed, lastKill, failure,
                   started,
                   rvars>>

\* What a failed single launch rejects with: the stealth variant wraps the
\* message of the failure, the retrying variant lets the failure through.
SingleFailure(e) ==
    IF variant = "stealth"
      THEN Rejected("launchBrowser", "Failed to launch browser", e)
      ELSE Rejected("launchBrowser", e, e)

\* Mutant of StartFail: the catch block does not count the attempt.
StartFailNoCount ==
    /\ lpc = "start"
    /\ \E e \in LaunchErrors :
         /\ failure' = e
         /\ IF Retries
              THEN /\ attempt' = attempt
                   /\ lpc' = "backoff"
                   /\ log' = Append(log, "wait")
                   /\ last' = last
              ELSE /\ attempt' = attempt
                   /\ lpc' = "idle"
                   /\ log' = log
                   /\ last' = SingleFailure(e)
    /\ UNCHANGED <<variant, ctorArg, manageErrors, browser, pages, running, nextBrowser,
                   nextPage, cpc, cbrowser, xpc, xbrowser, calls, held0, pages0,
                   newPageCalls, closeCalls, created,
                   given, passed, lastKill,
                   started,
                   rvars>>

\* puppeteer.launch(...) rejects.
StartFail ==
    /\ lpc = "start"
    /\ \E e \in LaunchErrors :
         /\ failure' = e
         /\ IF Retries
              THEN /\ attempt' = attempt + 1
                   /\ lpc' = "backoff"
                   /\ log' = Append(log, "wait")
                   /\ last' = last
              ELSE /\ attempt' = attempt
                   /\ lpc' = "idle"
                   /\ log' = log
                   /\ last' = SingleFailure(e)
    /\ UNCHANGED <<variant, ctorArg, manageErrors, browser, pages, running, nextBrowser,
                   nextPage, cpc, cbrowser, xpc, xbrowser, calls, held0, pages0,
                   newPageCalls, closeCalls, created,
                   given, passed, lastKill,
                   started,
                   rvars>>

\* Mutant of LoopTest: the loop test off by one.
LoopTestInclusive == attempt <= retryCount

\* while (attempt < retryCount)
LoopTest == attempt < retryCount

\* await delay(this.delayTime) in the catch block, then the loop test.
BackoffDone ==
    /\ lpc = "backoff"
    /\ IF LoopTest
         THEN /\ lpc' = LoopEntry
              /\ log' = Append(log, LoopEntry)
              /\ last' = last
         ELSE /\ lpc' = "idle"
              /\ log' = log
              /\ last' = Rejected("launchBrowser",
                                  "Failed to initialize Puppeteer after multiple attempts",
                                  "none")
    /\ UNCHANGED <<variant, ctorArg, manageErrors, browser, pages, running, nextBrowser,
                   nextPage, attempt, cpc, cbrowser, xpc, xbrowser, calls, held0,
                   pages0, newPageCalls, closeCalls, created,
                   given, passed, lastKill, failure,
                   started,
                   rvars>>

\* ------------------------------------------------------------ createPage
\* Mutant of NotLaunched: tests whether a browser was ever started instead
\* of whether one is held.
NotLaunchedEver == nextBrowser = 0

\* if (!this.browser)
NotLaunched == browser = NoBrowser

\* if (!this.browser) throw ...; otherwise browser.newPage() is invoked and
\* the call suspends.
CreateStart ==
    /\ cpc = "idle"
    /\ calls < MaxCalls
    /\ calls' = calls + 1
    /\ started' = [started EXCEPT !.createPage = @ + 1]
    /\ pages0' = pages
    /\ IF NotLaunched
         THEN /\ cpc' = "idle"
              /\ cbrowser' = browser
              /\ newPageCalls' = 0
              /\ last' = Rejected("createPage",
                                  "Browser not launched. Call launchBrowser() first.",
                                  "none")
         ELSE /\ cpc' = "newPage"
              /\ cbrowser' = browser
              /\ newPageCalls' = 1
              /\ last' = NoRet
    /\ UNCHANGED <<variant, ctorArg, manageErrors, browser, pages, running, nextBrowser,
                   nextPage, lpc, attempt, xpc, xbrowser, held0, log, closeCalls,
                   created,
                   given, passed, lastKill, failure,
                   rvars>>

\* Mutant of PushPage: the page is put in front (unshift instead of push).
PushPageFront(p) == <<p>> \o pages

\* this.pages.push(page)
PushPage(p) == Append(pages, p)

\* newPage() resolves: this.pages.push(page); return page.  Only a browser
\* whose process is still running answers newPage() with a page.
CreateOk ==
    /\ cpc = "newPage"
    /\ cbrowser \in running
    /\ nextPage' = nextPage + 1
    /\ pages' = PushPage(nextPage + 1)
    /\ created' = Append(created, nextPage + 1)
    /\ cpc' = "idle"
    /\ last' = Resolved("createPage", nextPage + 1)
    /\ UNCHANGED <<variant, ctorArg, manageErrors, browser, running, nextBrowser, lpc,
                   attempt, cbrowser, xpc, xbrowser, calls, held0, pages0, log,
                   newPageCalls, closeCalls,
                   given, passed, lastKill, failure,
                   started,
                   rvars>>

\* Mutant of CreateFail: a failed newPage() also gives up the session.
CreateFailDropsSession ==
    /\ cpc = "newPage"
    /\ cpc' = "idle"
    /\ browser' = NoBrowser
    /\ pages' = <<>>
    /\ last' = Rejected("createPage", "Failed to create a new page", "none")
    /\ UNCHANGED <<variant, ctorArg, manageErrors, running, nextBrowser,
                   nextPage, lpc, attempt, cbrowser, xpc, xbrowser, calls, held0,
                   pages0, log, newPageCalls, closeCalls, created,
                   given, passed, lastKill, failure,
                   started,
                   rvars>>

\* newPage() rejects: throw new Error('Failed to create a new page')
CreateFail ==
    /\ cpc = "newPage"
    /\ cpc' = "idle"
    /\ last' = Rejected("createPage", "Failed to create a new page", "none")
    /\ UNCHANGED <<variant, ctorArg, manageErrors, browser, pages, running, nextBrowser,
                   nextPage, lpc, attempt, cbrowser, xpc, xbrowser, calls, held0,
                   pages0, log, newPageCalls, closeCalls, created,
                   given, passed, lastKill, failure,
                   started,
                   rvars>>

\* ---------------------------------------------------------- closeBrowser
\* if (this.browser) { await this.browser.close(); ... } else nothing.
CloseStart ==
    /\ xpc = "idle"
    /\ calls < MaxCalls
    /\ calls' = calls + 1
    /\ started' = [started EXCEPT !.closeBrowser = @ + 1]
    /\ pages0' = pages
    /\ IF browser = NoBrowser
         THEN /\ xpc' = "idle"
              /\ xbrowser' = browser
              /\ closeCalls' = closeCalls
              /\ last' = Resolved("closeBrowser", 0)
         ELSE /\ xpc' = "close"
              /\ xbrowser' = browser
              /\ closeCalls' = closeCalls + 1
              /\ last' = NoRet
    /\ UNCHANGED <<variant, ctorArg, manageErrors, browser, pages, running, nextBrowser,
                   nextPage, lpc, attempt, cpc, cbrowser, held0, log,
                   newPageCalls, created,
                   given, passed, lastKill, failure,
                   rvars>>

\* Mutant of CloseDone: the handle is released but the pages are kept.
CloseDoneKeepsPages ==
    /\ xpc = "close"
    /\ running' = running \ {xbrowser}
    /\ browser' = NoBrowser
    /\ xpc' = "idle"
    /\ last' = Resolved("closeBrowser", 0)
    /\ UNCHANGED <<variant, ctorArg, manageErrors, pages, nextBrowser, nextPage, lpc,
                   attempt, cpc, cbrowser, xbrowser, calls, held0, pages0, log,
                   newPageCalls, closeCalls, created,
                   given, passed, lastKill, failure,
                   started,
                   rvars>>

\* browser.close() resolves: this.browser = null; this.pages = []
CloseDone ==
    /\ xpc = "close"
    /\ running' = running \ {xbrowser}
    /\ browser' = NoBrowser
    /\ pages' = <<>>
    /\ created' = <<>>
    /\ xpc' = "idle"
    /\ last' = Resolved("closeBrowser", 0)
    /\ UNCHANGED <<variant, ctorArg, manageErrors, nextBrowser, nextPage, lpc, attempt,
                   cpc, cbrowser, xbrowser, calls, held0, pages0, log,
                   newPageCalls, closeCalls,
                   given, passed, lastKill, failure,
                   started,
                   rvars>>

\* --------------------------------------------------------------- getPage
\* Indices a caller may pass (JavaScript indices are 0-based).
Indices == -1 .. MaxCalls

\* Mutant of getPage: the lower bound test off by one (index <= 0).
getPageLowerOff(index) ==
    IF index <= 0 \/ index >= Len(pages)
      THEN Rejected("getPage", "Invalid page index", "none")
      ELSE Resolved("getPage", pages[index + 1])

\* if (index < 0 || index >= this.pages.length) throw ...; return this.pages[index]
getPage(index) ==
    IF index < 0 \/ index >= Len(pages)
      THEN Rejected("getPage", "Invalid page index", "none")
      ELSE Resolved("getPage", pages[index + 1])

GetPage ==
    /\ Idle
    /\ \E index \in Indices :
         last' = [getPage(index) EXCEPT !.arg = index]
    /\ UNCHANGED <<variant, ctorArg, manageErrors, browser, pages, running, nextBrowser,
                   nextPage, lpc, attempt, cpc, cbrowser, xpc, xbrowser, calls,
                   held0, pages0, log, newPageCalls, closeCalls, created,
                   given, passed, lastKill, failure,
                   started,
                   rvars>>

\* ------------------------------------------------- sequential caller
\* Every call is awaited before the next one is issued.
LaunchBrowser == Idle /\ LaunchStart

CreatePage == Idle /\ CreateStart

CloseBrowser == Idle /\ CloseStart

Next ==
    \/ LaunchBrowser
    \/ KillDone
    \/ DelayDone
    \/ StartOk
    \/ LaunchReturn
    \/ StartFail
    \/ BackoffDone
    \/ CreatePage
    \/ CreateOk
    \/ CreateFail
    \/ CloseBrowser
    \/ CloseDone
    \/ GetPage

Spec == Init /\ [][Next]_vars

\* launchBrowser calls only, one awaited after the other.  Every await of a
\* call (the kill command, a delay, a start attempt) settles, and a call
\* whose await has settled is resumed.
NextLaunch ==
    \/ LaunchBrowser
    \/ KillDone
    \/ DelayDone
    \/ StartOk
    \/ LaunchReturn
    \/ StartFail
    \/ BackoffDone

LaunchSettles ==
    /\ WF_vars(KillDone)
    /\ WF_vars(DelayDone)
    /\ WF_vars(StartOk \/ StartFail)
    /\ WF_vars(LaunchReturn)
    /\ WF_vars(BackoffDone)

SpecLaunch == Init /\ [][NextLaunch]_vars /\ LaunchSettles

\* Calls issued without awaiting the previous one: a call may start while
\* calls of the other two methods are suspended at their awaits.
NextAsync ==
    \/ LaunchStart
    \/ KillDone
    \/ DelayDone
    \/ StartOk
    \/ LaunchReturn
    \/ StartFail
    \/ BackoffDone
    \/ CreateStart
    \/ CreateOk
    \/ CreateFail
    \/ CloseStart
    \/ CloseDone

SpecAsync == Init /\ [][NextAsync]_vars

\* A launchBrowser call and a closeBrowser call issued together on a
\* manager that is either fresh or has been initialised as Crawly.init does
\* (launchBrowser() resolved, then createPage() resolved).
HeldWithPage ==
    /\ browser = 1
    /\ pages = <<1>>
    /\ running = {1}
    /\ nextBrowser = 1
    /\ nextPage = 1
    /\ lpc = "idle"
    /\ attempt = 0
    /\ cpc = "idle"
    /\ cbrowser = 1
    /\ xpc = "idle"
    /\ xbrowser = NoBrowser
    /\ calls = 2
    /\ last = Resolved("createPage", 1)
    /\ held0 = NoBrowser
    /\ pages0 = <<>>
    /\ log = IF Retries THEN <<"kill", "wait", "start">> ELSE <<"start">>
    /\ newPageCalls = 1
    /\ closeCalls = 0
    /\ created = <<1>>
    /\ given = NoOptions
    /\ passed = FinalOptions(NoOptions)
    /\ lastKill = IF Retries THEN killChromeProcesses("notfound") ELSE NoKill
    /\ failure = "none"
    /\ started = [launchBrowser |-> 1, createPage |-> 1, closeBrowser |-> 0]

InitRace ==
    /\ InitRequests
    /\ \/ InitBrowser
       \/ /\ variant \in {"retrying", "stealth"}
          /\ ctorArg \in {"none", "true", "false"}
          /\ manageErrors = Constructed(ctorArg)
          /\ HeldWithPage

\* The one launchBrowser call of the pair.
RaceLaunch == started.launchBrowser = started.createPage /\ LaunchStart

\* The one closeBrowser call of the pair.
RaceClose == started.closeBrowser = 0 /\ CloseStart

NextRace ==
    \/ RaceLaunch
    \/ KillDone
    \/ DelayDone
    \/ StartOk
    \/ LaunchReturn
    \/ StartFail
    \/ BackoffDone
    \/ RaceClose
    \/ CloseDone

SpecRace == InitRace /\ [][NextRace]_vars

\* ====================================================================
\* RequestManager

\* Number of request events a page emits.
MaxEvents == 3

\* Number of listener registrations (interceptRequests, blockResourceTypes,
\* modifyRequests calls) made on a page.
MaxHandlers == 2

Managers == DOMAIN mgrPage

PageIds == DOMAIN listeners

\* Strings whose letter case matters are sequences of characters.
LowerCase == <<"a", "c", "e", "g", "h", "o", "p", "s", "t">>

UpperCase == <<"A", "C", "E", "G", "H", "O", "P", "S", "T">>

\* String.prototype.toUpperCase
toUpperCase(str) ==
    [i \in DOMAIN str |->
        IF \E k \in DOMAIN LowerCase : LowerCase[k] = str[i]
          THEN UpperCase[CHOOSE k \in DOMAIN LowerCase : LowerCase[k] = str[i]]
          ELSE str[i]]

\* The requests a page issues: what request.url(), request.method(),
\* request.headers() and request.resourceType() report. A method outside the
\* set the browser normalises (here "patch") is reported as the page wrote it.
ReqKinds ==
    { [url |-> "/logo.png", method |-> <<"G", "E", "T">>,
       headers |-> "h1", resourceType |-> "image"],
      [url |-> "/api/data", method |-> <<"P", "O", "S", "T">>,
       headers |-> "h2", resourceType |-> "script"],
      [url |-> "/site.css", method |-> <<"P", "O", "S", "T">>,
       headers |-> "h3", resourceType |-> "stylesheet"],
      [url |-> "/api/item", method |-> <<"p", "a", "t", "c", "h">>,
       headers |-> "h4", resourceType |-> "xhr"] }

\* Arguments callers pass to blockResourceTypes.
BlockSets == {{"image", "stylesheet"}}

\* What a modifyRequests callback does with the request it is handed.
Callbacks == {"continue", "none"}

\* The listener interceptRequests registers.
CaptureHandler(m) == [kind |-> "capture", mgr |-> m, types |-> {}, cb |-> "none"]

\* The listener blockResourceTypes(resourceTypes) registers.
BlockHandler(m, resourceTypes) ==
    [kind |-> "block", mgr |-> m, types |-> resourceTypes, cb |-> "none"]

\* The listener modifyRequests(modifyCallback) registers.
ModifyHandler(m, modifyCallback) ==
    [kind |-> "modify", mgr |-> m, types |-> {}, cb |-> modifyCallback]

\* One thing a listener did to a request: act is "push" (a record appended
\* to this.requests), "continue" (request.continue()) or "abort"
\* (request.abort()); by is the listener.
Op(act, h) == [act |-> act, by |-> h]

\* Mutant of CaptureOps: the request is continued but not recorded.
CaptureOpsNoPush(h) == <<Op("continue", h)>>

\* Body of the interceptRequests listener: this.requests.push({...});
\* request.continue()
CaptureOps(h) == <<Op("push", h), Op("continue", h)>>

\* Body of the blockResourceTypes listener.
BlockOps(h, request) ==
    IF request.resourceType \in h.types
      THEN <<Op("abort", h)>>
      ELSE <<Op("continue", h)>>

\* Body of the modifyRequests listener: modifyCallback(request)
ModifyOps(h) == IF h.cb = "none" THEN <<>> ELSE <<Op(h.cb, h)>>

HandlerOps(h, request) ==
    CASE h.kind = "capture" -> CaptureOps(h)
      [] h.kind = "block" -> BlockOps(h, request)
      [] h.kind = "modify" -> ModifyOps(h)

\* The page calls its 'request' listeners in registration order; the result
\* is everything they did to the request, in order.
RECURSIVE Dispatch(_, _)
Dispatch(hs, request) ==
    IF hs = <<>> THEN <<>>
    ELSE HandlerOps(Head(hs), request) \o Dispatch(Tail(hs), request)

\* Mutant of Pushed: the listeners push into a history shared by every
\* manager.
RECURSIVE PushedShared(_, _, _)
PushedShared(trace, m, request) ==
    IF trace = <<>> THEN <<>>
    ELSE (IF Head(trace).act = "push"
            THEN <<request>> ELSE <<>>) \o PushedShared(Tail(trace), m, request)

\* The records the listeners of manager m pushed for one request.
RECURSIVE Pushed(_, _, _)
Pushed(trace, m, request) ==
    IF trace = <<>> THEN <<>>
    ELSE (IF Head(trace).act = "push" /\ Head(trace).by.mgr = m
            THEN <<request>> ELSE <<>>) \o Pushed(Tail(trace), m, request)

NoQuery == [op |-> "none", arg |-> <<>>, ok |-> TRUE, val |-> <<>>]

\* Listeners registered on pages 1 .. p.
RECURSIVE ListenersUpTo(_)
ListenersUpTo(p) ==
    IF p = 0 THEN 0 ELSE Len(listeners[p]) + ListenersUpTo(p - 1)

Registered == Len(attaching) + ListenersUpTo(Len(listeners))

\* await this.page.setRequestInterception(true): interception is requested
\* and the call suspends before page.on('request', ...) runs.
Register(h) ==
    /\ attaching = <<>>
    /\ Registered < MaxHandlers
    /\ attaching' = <<h>>
    /\ interception' = [interception EXCEPT ![mgrPage[h.mgr]] = TRUE]
    /\ rlast' = NoQuery
    /\ UNCHANGED <<mgrPage, listeners, requests, events, attachAt, clearAt>>
    /\ UNCHANGED bvars

InterceptRequests == \E m \in Managers : Register(CaptureHandler(m))

BlockResourceTypes ==
    \E m \in Managers, resourceTypes \in BlockSets :
        Register(BlockHandler(m, resourceTypes))

ModifyRequests ==
    \E m \in Managers, modifyCallback \in Callbacks :
        Register(ModifyHandler(m, modifyCallback))

\* this.page.on('request', ...) after the await.
RegisterDone ==
    /\ attaching # <<>>
    /\ LET h == attaching[1]
           p == mgrPage[h.mgr]
       IN /\ listeners' = [listeners EXCEPT ![p] = Append(@, h)]
          /\ attachAt' = IF h.kind = "capture" /\ attachAt[h.mgr] < 0
                           THEN [attachAt EXCEPT ![h.mgr] = Len(events)]
                           ELSE attachAt
    /\ attaching' = <<>>
    /\ rlast' = NoQuery
    /\ UNCHANGED <<mgrPage, interception, requests, events, clearAt>>
    /\ UNCHANGED bvars

\* The page issues a request: every listener runs, synchronously.  seen is
\* the number of listeners the page had when the request was issued.
RequestEvent ==
    /\ Len(events) < MaxEvents
    /\ \E p \in PageIds, request \in ReqKinds :
         LET trace == Dispatch(listeners[p], request)
         IN /\ events' = Append(events,
                            [page |-> p, req |-> request, trace |-> trace,
                             seen |-> Len(listeners[p])])
            /\ requests' = [m \in Managers |->
                              requests[m] \o Pushed(trace, m, request)]
    /\ rlast' = NoQuery
    /\ UNCHANGED <<mgrPage, interception, listeners, attaching, attachAt, clearAt>>
    /\ UNCHANGED bvars

\* getRequests(): return this.requests
getRequests(m) == requests[m]

\* Arguments callers pass to filterRequestsByMethod.
MethodArgs ==
    { <<"p", "o", "s", "t">>, <<"P", "O", "S", "T">>, <<"P", "o", "s", "t">>,
      <<"g", "e", "t">>, <<"p", "a", "t", "c", "h">> }

\* this.requests.filter((request) => request.method === method.toUpperCase())
filterRequestsByMethod(m, method) ==
    SelectSeq(requests[m], LAMBDA request : request.method = toUpperCase(method))

FilterRequestsByMethod ==
    /\ \E m \in Managers, method \in MethodArgs :
         rlast' = [op |-> "filterRequestsByMethod", arg |-> method,
                   ok |-> TRUE, val |-> filterRequestsByMethod(m, method)]
    /\ UNCHANGED <<mgrPage, interception, listeners, attaching, requests, events,
                   attachAt, clearAt>>
    /\ UNCHANGED bvars

\* Mutant of ClearRequests: clearing also drops the page's listeners.
ClearRequestsDetaches ==
    /\ \E m \in Managers :
         /\ requests' = [requests EXCEPT ![m] = <<>>]
         /\ clearAt' = [clearAt EXCEPT ![m] = Len(events)]
         /\ listeners' = [listeners EXCEPT ![mgrPage[m]] = <<>>]
    /\ rlast' = NoQuery
    /\ UNCHANGED <<mgrPage, interception, attaching, events, attachAt>>
    /\ UNCHANGED bvars

\* clearRequests(): this.requests = []
ClearRequests ==
    /\ \E m \in Managers :
         /\ requests' = [requests EXCEPT ![m] = <<>>]
         /\ clearAt' = [clearAt EXCEPT ![m] = Len(events)]
    /\ rlast' = NoQuery
    /\ UNCHANGED <<mgrPage, interception, listeners, attaching, events, attachAt>>
    /\ UNCHANGED bvars

\* A page with one RequestManager; the BrowserManager is left alone.
InitR ==
    /\ Init
    /\ variant = "stealth"
    /\ ctorArg = "none"

NextRequests ==
    \/ InterceptRequests
    \/ BlockResourceTypes
    \/ ModifyRequests
    \/ RegisterDone
    \/ RequestEvent
    \/ ClearRequests

SpecRequests == InitR /\ [][NextRequests]_vars

\* Two pages of one session, each with its own RequestManager, nothing
\* registered.
InitPages ==
    /\ InitBrowser
    /\ variant = "stealth"
    /\ ctorArg = "none"
    /\ mgrPage = <<1, 2>>
    /\ interception = <<FALSE, FALSE>>
    /\ listeners = << <<>>, <<>> >>
    /\ attaching = <<>>
    /\ requests = << <<>>, <<>> >>
    /\ events = <<>>
    /\ attachAt = <<-1, -1>>
    /\ clearAt = <<-1, -1>>
    /\ rlast = NoQuery

\* What the two pages request: page 1 loads images, page 2 scripts.
PageResourceType == <<"image", "script">>

PageRequestEvent ==
    /\ RequestEvent
    /\ LET e == events'[Len(events')]
       IN e.req.resourceType = PageResourceType[e.page]

NextPages ==
    \/ InterceptRequests
    \/ BlockResourceTypes
    \/ RegisterDone
    \/ PageRequestEvent
    \/ ClearRequests

SpecPages == InitPages /\ [][NextPages]_vars

\* The queries over a captured history: requests are captured, then filtered.
NextFilter ==
    \/ InterceptRequests
    \/ RegisterDone
    \/ RequestEvent
    \/ FilterRequestsByMethod

SpecFilter == InitR /\ [][NextFilter]_vars

\* ====================================================================
\* One session as Crawly drives it (init: launchBrowser, createPage; close:
\* closeBrowser) and the RequestManager of its page: the manager is
\* constructed with the page createPage returns, the page issues requests
\* and accepts registrations only while it is open, and the manager's
\* queries can be called at any time afterwards.
PageOpen(p) == \E i \in DOMAIN pages : pages[i] = p

Bound(m) == mgrPage[m] <= nextPage

\* The session is launched once, with no options (launchBrowser()).
SessionLaunch ==
    /\ started.launchBrowser = 0
    /\ LaunchBrowser
    /\ given' = NoOptions

SessionCreate == started.createPage = 0 /\ CreatePage

SessionClose == started.closeBrowser = 0 /\ CloseBrowser

SessionIntercept ==
    /\ Idle
    /\ PageOpen(mgrPage[1])
    /\ InterceptRequests

SessionRequestEvent ==
    /\ PageOpen(mgrPage[1])
    /\ RequestEvent

SessionFilter ==
    /\ Idle
    /\ Bound(1)
    /\ FilterRequestsByMethod

NextSession ==
    \/ SessionLaunch
    \/ StartOk
    \/ StartFail
    \/ SessionCreate
    \/ CreateOk
    \/ CreateFail
    \/ SessionClose
    \/ CloseDone
    \/ SessionIntercept
    \/ RegisterDone
    \/ SessionRequestEvent
    \/ SessionFilter

SpecSession == InitR /\ [][NextSession]_vars

\* ====================================================================
\* Properties of BrowserManager, checked under Spec.

\* Number of puppeteer.launch invocations of the current/last launchBrowser.
Starts == Count(log, "start")

LaunchRejected == lpc = "idle" /\ last.op = "launchBrowser" /\ ~last.ok

LaunchResolved == lpc = "idle" /\ last.op = "launchBrowser" /\ last.ok

\* C1: on the retrying path (retrying variant, manageErrors = TRUE) a
\* launchBrowser call never makes more than retryCount start attempts; when
\* every attempt has failed it has made exactly retryCount of them and
\* rejects, and a manager that held no browser before still holds none.
C1_ExhaustedLaunch ==
    Retries =>
      /\ Starts <= retryCount
      /\ (lpc = "idle" /\ last.op = "launchBrowser" /\ attempt = retryCount)
            => ~last.ok
      /\ LaunchRejected =>
            /\ Starts = retryCount
            /\ attempt = retryCount
            /\ (held0 = NoBrowser => ~isBrowserLaunched)

C1_Witness ==
    /\ Retries
    /\ LaunchRejected
    /\ Starts = retryCount
    /\ held0 = NoBrowser
    /\ ~isBrowserLaunched

\* C2 (as claimed): immediately after a launchBrowser call rejects,
\* isBrowserLaunched() is false, whatever the manager held before.
C2_RejectedLaunchHoldsNothing == LaunchRejected => ~isBrowserLaunched

\* C3 (as claimed): immediately after a launchBrowser call resolves,
\* isBrowserLaunched() is true and getAllPages() is empty.
C3_ResolvedLaunchHasNoPages ==
    LaunchResolved => (isBrowserLaunched /\ getAllPages = <<>>)

\* s is an initial segment of t.
IsPrefix(s, t) == Len(s) <= Len(t) /\ SubSeq(t, 1, Len(s)) = s

\* C4: with n successful createPage calls since construction or the last
\* close, getAllPages() has length n and its i-th element is the page the
\* i-th of those calls returned; a createPage step only ever extends the
\* list, it never reorders, replaces or removes an entry.
C4_PagesInCreationOrder ==
    /\ [](getAllPages = created)
    /\ [][(cpc # "idle" \/ cpc' # "idle") => IsPrefix(pages, pages')]_vars

C4_Witness ==
    /\ last.op = "createPage"
    /\ last.ok
    /\ Len(getAllPages) >= 2
    /\ last.val = getAllPages[Len(getAllPages)]
    /\ nextBrowser >= 2

\* C5: getPage(i) raises the invalid-index error exactly when i < 0 or
\* i >= the number of registered pages, otherwise it returns the page the
\* i-th successful createPage registered; it changes neither the browser
\* handle nor the pages list (so repeated calls return the same handle).
C5_GetPage ==
    /\ [](last.op = "getPage" =>
            IF last.arg < 0 \/ last.arg >= Len(created)
              THEN ~last.ok /\ last.err = "Invalid page index"
              ELSE last.ok /\ last.val = created[last.arg + 1])
    /\ [][last'.op = "getPage" => (browser' = browser /\ pages' = pages)]_vars

C5_Witness ==
    /\ last.op = "getPage"
    /\ last.ok
    /\ last.arg = 1
    /\ last.val = created[2]

\* C10: a createPage call that finds no browser held (never launched, launch
\* failed, or closed) rejects with the not-launched error, never invokes
\* newPage(), and leaves the pages list as it was; newPage() is only ever
\* awaited on a browser that was held.
C10_CreatePageNotLaunched ==
    /\ cpc = "newPage" => cbrowser # NoBrowser
    /\ (cpc = "idle" /\ last.op = "createPage" /\ cbrowser = NoBrowser) =>
          /\ ~last.ok
          /\ last.err = "Browser not launched. Call launchBrowser() first."
          /\ newPageCalls = 0
          /\ pages = pages0

C10_Witness ==
    /\ last.op = "createPage"
    /\ ~last.ok
    /\ last.err = "Browser not launched. Call launchBrowser() first."
    /\ closeCalls > 0
    /\ nextBrowser > 0

\* C11: when newPage() fails, createPage rejects with the page-creation
\* error and the manager keeps the browser handle and the pages list it had
\* when the call began; a createPage that succeeds afterwards appends its
\* page at the next index.
C11_FailedCreateIsLocal ==
    /\ [](( /\ cpc = "idle"
            /\ last.op = "createPage"
            /\ ~last.ok
            /\ cbrowser # NoBrowser ) =>
              /\ last.err = "Failed to create a new page"
              /\ isBrowserLaunched
              /\ browser = cbrowser
              /\ getAllPages = pages0)
    /\ [][(cpc = "newPage" /\ cpc' = "idle" /\ last'.ok) =>
              (pages' = Append(pages, last'.val) /\ browser' = browser)]_vars

C11_Witness ==
    /\ cpc = "idle"
    /\ last.op = "createPage"
    /\ ~last.ok
    /\ last.err = "Failed to create a new page"
    /\ isBrowserLaunched
    /\ Len(getAllPages) >= 1
    /\ getAllPages = pages0

\* C12: closeBrowser() on a launched manager requests the browser's close
\* once and leaves isBrowserLaunched() false and getAllPages() empty; on a
\* manager that holds no browser it resolves at once and changes nothing,
\* so a second close leaves the state of the first.
C12_CloseIsIdempotent ==
    /\ []((xpc = "idle" /\ last.op = "closeBrowser") =>
              /\ last.ok
              /\ ~isBrowserLaunched
              /\ getAllPages = <<>>
              /\ (xbrowser # NoBrowser => xbrowser \notin running))
    /\ [][(calls' # calls /\ last'.op = "closeBrowser") =>
              /\ browser = NoBrowser
              /\ UNCHANGED <<browser, pages, running, closeCalls>>]_vars
    /\ [][(xpc = "idle" /\ xpc' = "close") =>
              /\ browser # NoBrowser
              /\ closeCalls' = closeCalls + 1]_vars
    /\ [][xpc = "close" => closeCalls' = closeCalls]_vars

C12_Witness ==
    /\ xpc = "idle"
    /\ last.op = "closeBrowser"
    /\ last.ok
    /\ xbrowser = NoBrowser
    /\ closeCalls = 1
    /\ nextBrowser = 1
    /\ nextPage >= 1

\* C13: in every state, calls suspended at their awaits included, the
\* pages list is non-empty only if the manager holds a browser.
C13_PagesOnlyWhileLaunched == getAllPages # <<>> => isBrowserLaunched

\* C14: at most one browser started by the manager is running and not
\* closed, and it is the browser the manager holds.
C14_OnlyHeldBrowserRuns ==
    /\ Cardinality(running) <= 1
    /\ \A b \in running : b = browser

\* Keys a launch options object may have.
OptionKeys == DOMAIN defaultOptions \cup UNION {DOMAIN o : o \in OptionChoices}

\* C17: the options handed to puppeteer.launch are the defaults overlaid by
\* the caller's options: every key the caller supplies has the caller's
\* value, every default key the caller omits has the default value.
C17_LaunchedOptionsAreOverlay ==
    Starts > 0 =>
        \A k \in OptionKeys :
            /\ k \in DOMAIN given =>
                  (k \in DOMAIN passed /\ passed[k] = given[k])
            /\ k \in DOMAIN defaultOptions \ DOMAIN given =>
                  (k \in DOMAIN passed /\ passed[k] = defaultOptions[k])

\* C18: killChromeProcesses never rejects: it yields true when the command
\* succeeded or reported 'not found' and false for any other failure; on
\* the retrying path the wait and the start attempt follow every kill,
\* whatever its result.
C18_KillNeverRejects ==
    /\ [](lastKill.outcome # "none" =>
              /\ ~lastKill.rejects
              /\ lastKill.value = (lastKill.outcome # "error"))
    /\ [](( Retries /\ lpc \notin {"kill", "delay"} ) =>
              Starts = Count(log, "kill"))
    /\ [][lpc = "kill" => lpc' = "delay"]_vars
    /\ [][lpc = "delay" => (lpc' = "start" /\ Starts' = Starts + 1)]_vars

C18_Witness ==
    /\ lpc = "start"
    /\ lastKill.outcome = "error"
    /\ lastKill.value = FALSE
    /\ Starts = 2
    /\ Count(log, "kill") = 2

\* C19: the kill runs during launchBrowser only on a manager whose
\* constructor was given the flag explicitly as true; a manager constructed
\* without arguments never runs it.
C19_ReapingIsOptIn == Count(log, "kill") > 0 => ctorArg = "true"

\* C20: a launchBrowser call that rejects delivers the failure its last
\* start attempt reported.
C20_RejectionCarriesLastFailure ==
    LaunchRejected => (failure # "none" /\ last.cause = failure)

\* The state the pair of calls started from (see InitRace).
PreHeld == started.createPage = 1

PreBrowser == IF PreHeld THEN 1 ELSE NoBrowser

PrePages == IF PreHeld THEN <<1>> ELSE <<>>

PreRunning == IF PreHeld THEN {1} ELSE {}

\* Both calls of the pair have been issued and have completed.
RaceOver ==
    /\ started.launchBrowser = started.createPage + 1
    /\ started.closeBrowser = 1
    /\ lpc = "idle"
    /\ xpc = "idle"

\* The pair's launchBrowser resolved; its browser is the newest one.
RaceLaunched == nextBrowser = started.launchBrowser

\* What a launchBrowser run alone may leave of the running set r: the
\* retrying path's taskkill may have removed every browser.
Kept(r) == IF Retries THEN {r, {}} ELSE {r}

\* Results <<held browser, pages, running browsers>> of launchBrowser
\* followed by closeBrowser.
LaunchThenClose ==
    { IF RaceLaunched
        THEN <<NoBrowser, <<>>, k>>
        ELSE <<NoBrowser, <<>>, k \ {PreBrowser}>> :
      k \in Kept(PreRunning) }

\* Results of closeBrowser followed by launchBrowser.
CloseThenLaunch ==
    { IF RaceLaunched
        THEN <<nextBrowser, <<>>, k \cup {nextBrowser}>>
        ELSE <<NoBrowser, <<>>, k>> :
      k \in Kept(PreRunning \ {PreBrowser}) }

\* C22: a launchBrowser call and a closeBrowser call running concurrently
\* leave the held browser, the pages and the running browsers as running
\* the two calls one after the other, in one of the two orders, would.
C22_LaunchCloseSerializable ==
    RaceOver =>
        <<browser, pages, running>> \in LaunchThenClose \cup CloseThenLaunch

\* C25: the stealth variant's launchBrowser retries: a call whose first
\* start attempt fails goes on to the next attempt, so it rejects only after
\* retryCount failed start attempts.
C25_StealthLaunchRetries ==
    (variant = "stealth" /\ LaunchRejected) => Starts = retryCount

\* C26: on the retrying path a launchBrowser call whose start attempts
\* fail j < retryCount times and then succeed resolves with the browser of
\* the successful attempt after exactly j + 1 start attempts and holds it;
\* nothing is killed or started after the success.
C26_FirstSuccessEndsLaunch ==
    /\ []((Retries /\ LaunchResolved) =>
              /\ attempt < retryCount
              /\ Starts = attempt + 1
              /\ Count(log, "kill") = Starts
              /\ log[Len(log)] = "start"
              /\ last.val = nextBrowser
              /\ browser = last.val
              /\ browser \in running)
    /\ [][(Retries /\ lpc = "start" /\ nextBrowser' # nextBrowser) =>
              (lpc' = "ret" /\ browser' = nextBrowser')]_vars
    /\ [][lpc = "ret" =>
              (lpc' = "idle" /\ UNCHANGED <<log, browser, running, nextBrowser>>)]_vars

C26_Witness ==
    /\ Retries
    /\ LaunchResolved
    /\ attempt = 2
    /\ Starts = 3
    /\ browser = 1
    /\ started.launchBrowser = 1

\* C27: every launchBrowser call terminates, resolving or rejecting after at
\* most retryCount start attempts, provided each start attempt, kill command
\* and delay terminates.
C27_LaunchTerminates ==
    /\ [](Starts <= retryCount)
    /\ \A n \in 1 .. MaxCalls :
          (started.launchBrowser = n /\ lpc # "idle") ~>
              (started.launchBrowser = n /\ lpc = "idle" /\ last.op = "launchBrowser")

C27_Witness ==
    /\ started.launchBrowser = 2
    /\ lpc = "idle"
    /\ last.op = "launchBrowser"
    /\ ~last.ok
    /\ Starts = retryCount
    /\ nextBrowser = 1

\* C28: on the retrying path a launchBrowser call that made k start
\* attempts performed exactly k waits of delayTime, each directly before a
\* start attempt, so one wait separates two consecutive start attempts.
C28_OneWaitPerStart ==
    (Retries /\ lpc = "idle" /\ last.op = "launchBrowser") =>
        /\ Count(log, "wait") = Starts
        /\ \A i \in DOMAIN log :
              log[i] = "start" => (i > 1 /\ log[i - 1] = "wait")

\* C29: with manageErrors = false no kill is invoked during a launch and
\* the retry budget still applies: the call rejects only after retryCount
\* failed start attempts.
C29_BudgetWithoutReaping ==
    ~manageErrors =>
        /\ Count(log, "kill") = 0
        /\ LaunchRejected => Starts = retryCount

\* C30: every launchBrowser call, one that follows an exhausted call
\* included, starts with the full budget of retryCount start attempts; when
\* one of its attempts succeeds the manager holds the browser and
\* createPage goes on to newPage().
C30_FreshBudgetAfterFailure ==
    /\ [][started'.launchBrowser # started.launchBrowser =>
              /\ attempt' = 0
              /\ Starts' <= 1
              /\ lpc' \in {"kill", "start"}]_vars
    /\ []((Retries /\ lpc \in {"kill", "delay", "start"}) =>
              /\ attempt < retryCount
              /\ Starts <= attempt + 1)
    /\ [](LaunchResolved => (isBrowserLaunched /\ ~NotLaunched))
    /\ [][(started'.createPage # started.createPage /\ isBrowserLaunched) =>
              (cpc' = "newPage" /\ cbrowser' = browser)]_vars

C30_Witness ==
    /\ Retries
    /\ started.launchBrowser = 2
    /\ nextBrowser = 1
    /\ attempt = 2
    /\ Starts = retryCount
    /\ isBrowserLaunched
    /\ last = Resolved("createPage", 1)
    /\ getAllPages = <<1>>

\* C31: once a closeBrowser() call has closed a browser and completed, the
\* manager never holds a browser again and never registers a page.
C31_ClosedIsTerminal ==
    (closeCalls >= 1 /\ xpc = "idle") =>
        (~isBrowserLaunched /\ getAllPages = <<>>)

\* ====================================================================
\* Properties of RequestManager, checked under SpecRequests and SpecFilter.

Max(a, b) == IF a >= b THEN a ELSE b

\* The decisions (request.continue() / request.abort() calls) in a trace.
Decisions(trace) == SelectSeq(trace, LAMBDA o : o.act \in {"continue", "abort"})

\* What happens to the request: the first decision issued stands (a later
\* continue()/abort() finds the request already handled); with none the
\* request stays pending.
Outcome(trace) ==
    IF Decisions(trace) = <<>> THEN "pending" ELSE Decisions(trace)[1].act

\* Number of capture listeners manager m has on its page.
Captures(m) ==
    Cardinality({i \in DOMAIN listeners[mgrPage[m]] :
                    /\ listeners[mgrPage[m]][i].kind = "capture"
                    /\ listeners[mgrPage[m]][i].mgr = m})

\* The requests that arrived on manager m's page after event number n.
ArrivedSince(m, n) ==
    LET onPage == SelectSeq(SubSeq(events, n + 1, Len(events)),
                            LAMBDA e : e.page = mgrPage[m])
    IN [i \in DOMAIN onPage |-> onPage[i].req]

\* C6: once interceptRequests() has completed on a manager (one capture
\* listener), getRequests() holds exactly one record per request event that
\* arrived since (or since the last clearRequests), in arrival order,
\* whatever was decided for each request.
C6_HistoryIsArrivalOrder ==
    \A m \in Managers :
        Captures(m) = 1 =>
            getRequests(m) = ArrivedSince(m, Max(attachAt[m], clearAt[m]))

C6_Witness ==
    /\ Captures(1) = 1
    /\ clearAt[1] < 0
    /\ Len(getRequests(1)) = MaxEvents
    /\ \E i \in DOMAIN events : Outcome(events[i].trace) = "abort"
    /\ \E i \in DOMAIN events : Outcome(events[i].trace) = "continue"
    /\ \E i, j \in DOMAIN events : events[i].req # events[j].req

HasKind(trace, kind) == \E j \in DOMAIN trace : trace[j].by.kind = kind

\* The resource types blocked by the block listeners that saw the request.
BlockedTypes(trace) ==
    UNION {trace[j].by.types : j \in {k \in DOMAIN trace : trace[k].by.kind = "block"}}

\* C7 (as claimed): with capture attached and blockResourceTypes(S)
\* registered on the same page, every request is recorded, a request whose
\* type is in S is aborted and not continued, and any other request is
\* continued and not aborted.
C7_BlockedAreAborted ==
    \A i \in DOMAIN events :
        LET e == events[i] IN
        (HasKind(e.trace, "capture") /\ HasKind(e.trace, "block")) =>
            /\ \E j \in DOMAIN e.trace : e.trace[j].act = "push"
            /\ Outcome(e.trace) =
                  IF e.req.resourceType \in BlockedTypes(e.trace)
                    THEN "abort" ELSE "continue"

\* C8 (as claimed): a request's record is appended before any
\* continue/abort decision is issued for it, so every request a listener
\* of the manager decides, blocked ones included, is in the history.
C8_RecordedBeforeDecided ==
    \A i \in DOMAIN events :
        LET t == events[i].trace IN
        \A j \in DOMAIN t :
            t[j].act \in {"continue", "abort"} =>
                \E k \in 1 .. (j - 1) :
                    t[k].act = "push" /\ t[k].by.mgr = t[j].by.mgr

\* s and t are the same string up to letter case.
SameIgnoringCase(s, t) == toUpperCase(s) = toUpperCase(t)

\* C9 (as claimed): filterRequestsByMethod(m) returns exactly the history
\* records whose method equals m ignoring the letter case of both the
\* argument and the recorded method, in history order.
C9_FilterIgnoresCase ==
    rlast.op = "filterRequestsByMethod" =>
        rlast.val = SelectSeq(getRequests(1),
                              LAMBDA r : SameIgnoringCase(r.method, rlast.arg))

\* C15: once a second subscription is attached to a page, a request event
\* is handled only by the handler attached most recently before it.
C15_LatestHandlerOnly ==
    \A i \in DOMAIN events :
        LET e == events[i] IN
        e.seen > 0 => e.trace = HandlerOps(listeners[e.page][e.seen], e.req)

\* The operations act that capture listeners of manager m did in a trace.
CaptureActs(trace, m, act) ==
    SelectSeq(trace, LAMBDA o : o.act = act /\ o.by = CaptureHandler(m))

\* C16: on a page whose only subscriptions come from interceptRequests() of
\* one manager, called once or twice, each request produces exactly one
\* history record and exactly one continue call.
C16_SecondInterceptIsNoOp ==
    \A i \in DOMAIN events, m \in Managers :
        LET e == events[i] IN
        ( /\ e.seen > 0
          /\ \A k \in 1 .. e.seen : listeners[e.page][k] = CaptureHandler(m) ) =>
            /\ Len(CaptureActs(e.trace, m, "push")) = 1
            /\ Len(CaptureActs(e.trace, m, "continue")) = 1
            /\ Len(e.trace) = 2

\* C21: clearRequests() empties the history of its manager and changes
\* nothing else: interception stays enabled and the listeners stay
\* registered, so later requests are decided as before and recorded in
\* arrival order.
C21_ClearOnlyEmptiesHistory ==
    /\ [][clearAt' # clearAt =>
              /\ \E m \in Managers :
                    /\ requests' = [requests EXCEPT ![m] = <<>>]
                    /\ clearAt' = [clearAt EXCEPT ![m] = Len(events)]
              /\ UNCHANGED <<mgrPage, interception, listeners, attaching,
                             events, attachAt>>]_vars
    /\ [][Len(requests'[1]) < Len(requests[1]) => clearAt' # clearAt]_vars
    /\ [](\A p \in PageIds : listeners[p] # <<>> => interception[p])
    /\ [](\A i \in DOMAIN events :
              events[i].seen <= Len(listeners[events[i].page])
              /\ events[i].trace =
                    Dispatch(SubSeq(listeners[events[i].page], 1, events[i].seen),
                             events[i].req))
    /\ [](\A m \in Managers :
              (Captures(m) = 1 /\ clearAt[m] >= attachAt[m]) =>
                  getRequests(m) = ArrivedSince(m, clearAt[m]))

C21_Witness ==
    /\ Captures(1) = 1
    /\ clearAt[1] = 1
    /\ Len(events) = 3
    /\ Len(getRequests(1)) = 2
    /\ events[1].seen = 2
    /\ Outcome(events[3].trace) = "abort"
    /\ events[2].req # events[3].req

\* What a rule decides for a request when it is the one that handles it:
\* "none" when it does not match (or, for a callback, decides nothing).
RuleDecision(h, request) ==
    CASE h.kind = "capture" -> "continue"
      [] h.kind = "block" ->
            IF request.resourceType \in h.types THEN "abort" ELSE "none"
      [] h.kind = "modify" -> h.cb

\* The decision of the first rule that matches, continue if none does.
RECURSIVE FirstMatch(_, _)
FirstMatch(hs, request) ==
    IF hs = <<>> THEN "continue"
    ELSE IF RuleDecision(Head(hs), request) # "none"
           THEN RuleDecision(Head(hs), request)
           ELSE FirstMatch(Tail(hs), request)

\* The listeners the page had when event e was dispatched.
SeenBy(e) == SubSeq(listeners[e.page], 1, e.seen)

\* C23: with several rules registered on a page each request receives
\* exactly one decision, that of the first registered rule matching it, or
\* continue when none matches.
C23_OneDecisionPerRequest ==
    \A i \in DOMAIN events :
        LET e == events[i] IN
        e.seen >= 2 =>
            /\ Len(Decisions(e.trace)) = 1
            /\ Decisions(e.trace)[1].act = FirstMatch(SeenBy(e), e.req)

\* C24: a request dispatched on a page with a modifyRequests listener is
\* decided, whatever the callback does.  Listeners run synchronously when
\* the request is issued and nothing decides a request afterwards, so a
\* request left pending by its dispatch stays pending.
C24_ModifiedRequestsAreDecided ==
    \A i \in DOMAIN events :
        LET e == events[i] IN
        (\E k \in 1 .. e.seen : SeenBy(e)[k].kind = "modify") =>
            Outcome(e.trace) # "pending"

\* C32: with two pages, each with its own RequestManager, a manager's
\* history is the arrival-order sequence of its own page's requests only;
\* a request event, a clearRequests or a registration on one manager changes
\* neither the other manager's history nor the listeners or the decisions
\* of the other page.
C32_PagesAreIndependent ==
    /\ [](\A m \in Managers :
              Captures(m) = 1 =>
                  getRequests(m) = ArrivedSince(m, Max(attachAt[m], clearAt[m])))
    /\ [](\A m \in Managers : \A i \in DOMAIN requests[m] :
              requests[m][i].resourceType = PageResourceType[mgrPage[m]])
    /\ [](\A i \in DOMAIN events :
              /\ events[i].trace = Dispatch(SeenBy(events[i]), events[i].req)
              /\ \A j \in DOMAIN events[i].trace :
                    mgrPage[events[i].trace[j].by.mgr] = events[i].page)
    /\ [][\A m \in Managers :
              requests'[m] # requests[m] =>
                  \/ /\ Len(events') = Len(events) + 1
                     /\ events'[Len(events')].page = mgrPage[m]
                  \/ /\ clearAt'[m] # clearAt[m]
                     /\ requests'[m] = <<>>]_vars
    /\ [][\A p \in PageIds :
              listeners'[p] # listeners[p] =>
                  (attaching # <<>> /\ mgrPage[attaching[1].mgr] = p)]_vars
    /\ [][SubSeq(events', 1, Len(events)) = events]_vars

C32_Witness ==
    /\ Captures(1) = 1
    /\ Captures(2) = 1
    /\ Len(events) = 3
    /\ events[1].page = 1
    /\ events[2].page = 2
    /\ events[3].page = 1
    /\ clearAt[2] = 2
    /\ getRequests(2) = <<>>
    /\ Len(getRequests(1)) = 2

\* closeBrowser() has closed the session the manager's page belonged to.
SessionClosed ==
    /\ Bound(1)
    /\ closeCalls >= 1
    /\ xpc = "idle"
    /\ ~isBrowserLaunched

\* C33: once closeBrowser() has completed, a query on a RequestManager
\* bound to a page of that session reports a failure.
C33_QueriesFailAfterClose ==
    [][(SessionClosed /\ rlast' # rlast /\ rlast'.op # "none") =>
          ~rlast'.ok]_vars

====
